---- MODULE Spec2Model ----
(***************************************************************************)
(* zlog: scoped logging.  Two iterations of the same design live in the    *)
(* repository:                                                             *)
(*   - Controller / Scope  (src/unnamed/part_000): lockable thresholds,    *)
(*     info -> stdout, everything else -> stderr;                          *)
(*   - Master / Scope      (src/src/main.ts): no lock, everything written  *)
(*     to stdout.                                                          *)
(* One run of the model constructs one registry of either kind (impl) and  *)
(* then calls its operations in any order.                                 *)
(*                                                                         *)
(* Objects are modelled by a heap: heap[i] is the i-th Scope object ever   *)
(* constructed, and a reference to a Scope is its index.  The registry     *)
(* (the Map) sends a symbol to a reference.                                *)
(***************************************************************************)
EXTENDS Integers, Sequences, FiniteSets, TLC

VARIABLES
    symbols,       \* the symbols the callers of this run have created
    impl,          \* "none" before construction, then "Controller" or "Master"
    defaultLevel,  \* the registry's public defaultLevel field
    scopes,        \* the Map<symbol, Scope>: symbol -> reference into heap
    heap,          \* every Scope object constructed so far, in order
    stdout,        \* the chunks written to Deno.stdout, in order
    stderr         \* the chunks written to Deno.stderr, in order

vars == <<symbols, impl, defaultLevel, scopes, heap, stdout, stderr>>

---------------------------------------------------------------------------
(* enum Level *)
debug == 0
info == 1
warn == 2
err == 3
none == 4

Levels == {debug, info, warn, err, none}

\* The levels the four emission methods pass to logFn / #log.
MessageLevels == {debug, info, warn, err}

(* Bounds of the model *)
\* At most this many chunks are written to the two streams in one run.
MaxWrites == 1
\* At most this many in a run with a single symbol (SpecLog), where the
\* streams get long enough to show the order of the lines.
MaxBurst == 2

(* Inputs *)
\* The symbols callers pass.  Two carry the same description text, two carry
\* none: Symbol.for("lib"), Symbol("lib"), Symbol(), Symbol().
Symbols == {"forLib", "uniqLib", "anonA", "anonB"}

\* symbol.description: a string, or undefined (defined = FALSE).
description(symbol) ==
    IF symbol \in {"forLib", "uniqLib"}
    THEN [defined |-> TRUE, text |-> "lib"]
    ELSE [defined |-> FALSE, text |-> ""]

\* The symbols in play in one run: two with the same description text, one
\* with a description and one without, or two without.
SymbolSets == {{"forLib", "uniqLib"}, {"forLib", "anonA"}, {"anonA", "anonB"}}

\* The symbol in play in a run with a single symbol: with or without a
\* description.
LogSymbolSets == {{"forLib"}, {"anonA"}}

\* The message texts callers pass to the emission methods in a run with a
\* single symbol: one without and one with a line break inside.
LogMessages == {"x", "x\ny"}

\* The message texts callers pass to the emission methods.
Messages == IF symbols \in LogSymbolSets THEN LogMessages ELSE {"x"}

---------------------------------------------------------------------------
(* Conversions *)

Digit(d) ==
    CASE d = 0 -> "0" [] d = 1 -> "1" [] d = 2 -> "2" [] d = 3 -> "3"
      [] d = 4 -> "4" [] d = 5 -> "5" [] d = 6 -> "6" [] d = 7 -> "7"
      [] d = 8 -> "8" [] d = 9 -> "9"

\* Number.prototype.toString() of a non-negative integer: its decimal digits.
RECURSIVE toString(_)
toString(n) == IF n < 10 THEN Digit(n) ELSE toString(n \div 10) \o Digit(n % 10)

\* Level[level]: the reverse mapping of the numeric enum (part_000).
LevelName(level) ==
    CASE level = debug -> "debug"
      [] level = info -> "info"
      [] level = warn -> "warn"
      [] level = err -> "err"
      [] level = none -> "none"

\* levelStr[level] (main.ts).
levelStr(level) ==
    CASE level = debug -> "debug"
      [] level = info -> "info"
      [] level = warn -> "warn"
      [] level = err -> "error"
      [] level = none -> "nolog"

---------------------------------------------------------------------------
(* part_000: class Scope *)

\* constructor(symbol, level, fallback): locked starts false, the name is the
\* symbol's description, or the fallback when the description is undefined.
Scope(symbol, level, fallback) ==
    [symbol |-> symbol,
     name |-> IF description(symbol).defined THEN description(symbol).text ELSE fallback,
     level |-> level,
     locked |-> FALSE]

\* set locked(value): returns early when already locked.
\* (variant: the setter without its early return)
LockedSetterUnguarded(scope, value) == [scope EXCEPT !.locked = value]
LockedSetter(scope, value) ==
    IF scope.locked THEN scope ELSE [scope EXCEPT !.locked = value]

\* set level(value): returns early when locked.
\* (variant: the setter without its early return)
LevelSetterUnguarded(scope, value) == [scope EXCEPT !.level = value]
LevelSetter(scope, value) ==
    IF scope.locked THEN scope ELSE [scope EXCEPT !.level = value]

\* logFn's guard: `if (this.level > level) return;`
\* (variant: `>=` in place of `>`)
SuppressedAtThreshold(threshold, level) == threshold >= level
Suppressed(threshold, level) == threshold > level

\* logFn's line: `${Level[level]}(${this.name}): ${message}\n`
Line(scope, message, level) ==
    LevelName(level) \o "(" \o scope.name \o "): " \o message \o "\n"

\* logFn's stream: level === Level.info ? Deno.stdout : Deno.stderr
Fd(level) == IF level = info THEN "stdout" ELSE "stderr"

\* logFn(message, level): the writeSync calls it makes, in order: none when
\* suppressed, else one, of the encoded line, on the stream chosen by level.
\* (TextEncoder.encode yields the line's UTF-8 bytes; a chunk is kept as text.)
logFn(scope, message, level) ==
    IF Suppressed(scope.level, level)
    THEN <<>>
    ELSE <<[fd |-> Fd(level), chunk |-> Line(scope, message, level)]>>

---------------------------------------------------------------------------
(* part_000: class Controller.  A registry value is [scopes, heap]; a call   *)
(* yields [reg, ret]: the registry after the call and the returned reference. *)

\* scope(symbol, level): the existing scope, or a new one registered under
\* symbol with the registry's size (before insertion) as fallback name.
\* (variant: the new Scope returned without `this.#scopes.set`)
scopeUnregistered(reg, symbol, level) ==
    IF symbol \in DOMAIN reg.scopes
    THEN [reg |-> reg, ret |-> reg.scopes[symbol]]
    ELSE LET new == Scope(symbol, level, toString(Cardinality(DOMAIN reg.scopes)))
         IN  [reg |-> [scopes |-> reg.scopes, heap |-> Append(reg.heap, new)],
              ret |-> Len(reg.heap) + 1]
\* (variant: the fallback taken from the size after insertion)
scopeSizeAfterInsert(reg, symbol, level) ==
    IF symbol \in DOMAIN reg.scopes
    THEN [reg |-> reg, ret |-> reg.scopes[symbol]]
    ELSE LET new == Scope(symbol, level, toString(Cardinality(DOMAIN reg.scopes) + 1))
             ref == Len(reg.heap) + 1
         IN  [reg |-> [scopes |-> reg.scopes @@ (symbol :> ref),
                       heap |-> Append(reg.heap, new)],
              ret |-> ref]
\* (variant: without the `has` check)
scopeAlwaysNew(reg, symbol, level) ==
    LET new == Scope(symbol, level, toString(Cardinality(DOMAIN reg.scopes)))
        ref == Len(reg.heap) + 1
    IN  [reg |-> [scopes |-> [k \in DOMAIN reg.scopes \cup {symbol} |->
                                 IF k = symbol THEN ref ELSE reg.scopes[k]],
                  heap |-> Append(reg.heap, new)],
         ret |-> ref]
\* (variant: one fixed fallback name for every key without a description)
scopeUnknownFallback(reg, symbol, level) ==
    IF symbol \in DOMAIN reg.scopes
    THEN [reg |-> reg, ret |-> reg.scopes[symbol]]
    ELSE LET new == Scope(symbol, level, "unknown")
             ref == Len(reg.heap) + 1
         IN  [reg |-> [scopes |-> reg.scopes @@ (symbol :> ref),
                       heap |-> Append(reg.heap, new)],
              ret |-> ref]
scope(reg, symbol, level) ==
    IF symbol \in DOMAIN reg.scopes
    THEN [reg |-> reg, ret |-> reg.scopes[symbol]]
    ELSE LET new == Scope(symbol, level, toString(Cardinality(DOMAIN reg.scopes)))
             ref == Len(reg.heap) + 1
         IN  [reg |-> [scopes |-> reg.scopes @@ (symbol :> ref),
                       heap |-> Append(reg.heap, new)],
              ret |-> ref]

\* set(symbol, level): get ?? scope(symbol, level); scope.level = level.
\* (variant: the level assigned to every Scope carrying the resolved name)
setByName(reg, symbol, level) ==
    LET got == IF symbol \in DOMAIN reg.scopes
               THEN [reg |-> reg, ret |-> reg.scopes[symbol]]
               ELSE scope(reg, symbol, level)
    IN  [reg |-> [got.reg EXCEPT !.heap =
                     [i \in DOMAIN got.reg.heap |->
                         IF got.reg.heap[i].name = got.reg.heap[got.ret].name
                         THEN LevelSetter(got.reg.heap[i], level)
                         ELSE got.reg.heap[i]]],
         ret |-> got.ret]
\* (variant: the level stored without going through the setter)
setField(reg, symbol, level) ==
    LET got == IF symbol \in DOMAIN reg.scopes
               THEN [reg |-> reg, ret |-> reg.scopes[symbol]]
               ELSE scope(reg, symbol, level)
    IN  [reg |-> [got.reg EXCEPT !.heap[got.ret].level = level],
         ret |-> got.ret]
set(reg, symbol, level) ==
    LET got == IF symbol \in DOMAIN reg.scopes
               THEN [reg |-> reg, ret |-> reg.scopes[symbol]]
               ELSE scope(reg, symbol, level)
    IN  [reg |-> [got.reg EXCEPT !.heap[got.ret] = LevelSetter(@, level)],
         ret |-> got.ret]

\* lock(symbol): set(symbol, (get ?? {level: defaultLevel}).level).locked = true
\* (variant: defaultLevel passed to set even when the scope exists)
lockAtDefault(reg, dflt, symbol) ==
    LET got == set(reg, symbol, dflt)
    IN  [reg |-> [got.reg EXCEPT !.heap[got.ret] = LockedSetter(@, TRUE)],
         ret |-> 0]
lock(reg, dflt, symbol) ==
    LET current == IF symbol \in DOMAIN reg.scopes
                   THEN reg.heap[reg.scopes[symbol]].level
                   ELSE dflt
        got == set(reg, symbol, current)
    IN  [reg |-> [got.reg EXCEPT !.heap[got.ret] = LockedSetter(@, TRUE)],
         ret |-> 0]

---------------------------------------------------------------------------
(* main.ts: class Scope and class Master *)

\* constructor(master, sym, level): level is a plain public field, there is no
\* lock; the name is the symbol's description or "unknown".  (The readonly
\* back-reference to the master is not kept: nothing reads it.)
MScope(sym, level) ==
    [sym |-> sym,
     name |-> IF description(sym).defined THEN description(sym).text ELSE "unknown",
     level |-> level]

\* #fmt(message): `${levelStr[this.level]}(${this.name}): ${message}\n`
fmt(mscope, message) ==
    levelStr(mscope.level) \o "(" \o mscope.name \o "): " \o message \o "\n"

\* #log's guard: `if (this.level > level) return;`
\* (variant: off by one, so that a level just below the threshold passes)
MSuppressedOffByOne(threshold, level) == threshold > level + 1
MSuppressed(threshold, level) == threshold > level

\* #log(message, level): the writeSync calls it makes: none when suppressed,
\* else one, of the encoded #fmt(message), on Deno.stdout.
log(mscope, message, level) ==
    IF MSuppressed(mscope.level, level)
    THEN <<>>
    ELSE <<[fd |-> "stdout", chunk |-> fmt(mscope, message)]>>

\* Master.scope(sym, level)
\* (variant: an existing scope takes the level passed)
Master_scopeRelevel(reg, sym, level) ==
    IF sym \in DOMAIN reg.scopes
    THEN [reg |-> [reg EXCEPT !.heap[reg.scopes[sym]].level = level],
          ret |-> reg.scopes[sym]]
    ELSE LET ref == Len(reg.heap) + 1
         IN  [reg |-> [scopes |-> reg.scopes @@ (sym :> ref),
                       heap |-> Append(reg.heap, MScope(sym, level))],
              ret |-> ref]
Master_scope(reg, sym, level) ==
    IF sym \in DOMAIN reg.scopes
    THEN [reg |-> reg, ret |-> reg.scopes[sym]]
    ELSE LET ref == Len(reg.heap) + 1
         IN  [reg |-> [scopes |-> reg.scopes @@ (sym :> ref),
                       heap |-> Append(reg.heap, MScope(sym, level))],
              ret |-> ref]

\* Master.set(sym, level): get ?? scope(sym, level); scope.level = level.
Master_set(reg, sym, level) ==
    LET got == IF sym \in DOMAIN reg.scopes
               THEN [reg |-> reg, ret |-> reg.scopes[sym]]
               ELSE Master_scope(reg, sym, level)
    IN  [reg |-> [got.reg EXCEPT !.heap[got.ret].level = level],
         ret |-> got.ret]

---------------------------------------------------------------------------
(* State *)

Init ==
    /\ symbols \in SymbolSets
    /\ impl = "none"
    /\ defaultLevel = none      \* no registry yet; set by the constructor
    /\ scopes = <<>>
    /\ heap = <<>>
    /\ stdout = <<>>
    /\ stderr = <<>>

\* The same, for a run with a single symbol.
InitLog ==
    /\ symbols \in LogSymbolSets
    /\ impl = "none"
    /\ defaultLevel = none
    /\ scopes = <<>>
    /\ heap = <<>>
    /\ stdout = <<>>
    /\ stderr = <<>>

Registry == [scopes |-> scopes, heap |-> heap]

Refs == 1..Len(heap)

Writes == Len(stdout) + Len(stderr)

\* An emission that writes is taken only while the model has room for its chunks.
Room(calls) ==
    Writes + Len(calls) <= (IF symbols \in LogSymbolSets THEN MaxBurst ELSE MaxWrites)

\* The chunks among `calls` that go to stream fd, in order.
RECURSIVE Chunks(_, _)
Chunks(calls, fd) ==
    IF calls = <<>> THEN <<>>
    ELSE (IF Head(calls).fd = fd THEN <<Head(calls).chunk>> ELSE <<>>)
         \o Chunks(Tail(calls), fd)

\* fd.writeSync(bytes), for each call in order: the bytes are appended to the
\* stream.
\* (variant: the bytes land in front of what the stream already holds)
writeSyncPrepend(calls) ==
    /\ stdout' = Chunks(calls, "stdout") \o stdout
    /\ stderr' = Chunks(calls, "stderr") \o stderr
writeSync(calls) ==
    /\ stdout' = stdout \o Chunks(calls, "stdout")
    /\ stderr' = stderr \o Chunks(calls, "stderr")

\* The registry after a call; call.ret is handed to the caller.
Returns(call) ==
    /\ scopes' = call.reg.scopes
    /\ heap' = call.reg.heap

---------------------------------------------------------------------------
(* Construction *)

\* The default value of the constructor's parameter in both classes:
\* `public defaultLevel: Level = Level.info`.
DefaultParam == info

\* new Controller()
NewController ==
    /\ impl = "none"
    /\ impl' = "Controller"
    /\ defaultLevel' = DefaultParam
    /\ UNCHANGED <<symbols, scopes, heap, stdout, stderr>>

\* new Controller(level)
NewControllerLevel(level) ==
    /\ impl = "none"
    /\ impl' = "Controller"
    /\ defaultLevel' = level
    /\ UNCHANGED <<symbols, scopes, heap, stdout, stderr>>

\* new Master()
NewMaster ==
    /\ impl = "none"
    /\ impl' = "Master"
    /\ defaultLevel' = DefaultParam
    /\ UNCHANGED <<symbols, scopes, heap, stdout, stderr>>

\* new Master(level)
NewMasterLevel(level) ==
    /\ impl = "none"
    /\ impl' = "Master"
    /\ defaultLevel' = level
    /\ UNCHANGED <<symbols, scopes, heap, stdout, stderr>>

\* registry.defaultLevel = level (a public field of both classes)
\* (variant: the new default also stored in every unlocked scope)
AssignDefaultLevelPropagating(level) ==
    /\ impl # "none"
    /\ defaultLevel' = level
    /\ heap' = [ref \in DOMAIN heap |->
                   IF impl = "Controller" /\ heap[ref].locked
                   THEN heap[ref]
                   ELSE [heap[ref] EXCEPT !.level = level]]
    /\ UNCHANGED <<symbols, impl, scopes, stdout, stderr>>
AssignDefaultLevel(level) ==
    /\ impl # "none"
    /\ defaultLevel' = level
    /\ UNCHANGED <<symbols, impl, scopes, heap, stdout, stderr>>

---------------------------------------------------------------------------
(* Calls on a Controller (part_000) *)

\* controller.scope(symbol): level defaults to this.defaultLevel
\* (variant: level defaulting to Level.info)
Controller_scopeAtInfo(symbol) ==
    /\ impl = "Controller"
    /\ Returns(scope(Registry, symbol, info))
    /\ UNCHANGED <<symbols, impl, defaultLevel, stdout, stderr>>
Controller_scope(symbol) ==
    /\ impl = "Controller"
    /\ Returns(scope(Registry, symbol, defaultLevel))
    /\ UNCHANGED <<symbols, impl, defaultLevel, stdout, stderr>>

\* controller.scope(symbol, level)
Controller_scopeLevel(symbol, level) ==
    /\ impl = "Controller"
    /\ Returns(scope(Registry, symbol, level))
    /\ UNCHANGED <<symbols, impl, defaultLevel, stdout, stderr>>

\* controller.set(symbol, level)
Controller_set(symbol, level) ==
    /\ impl = "Controller"
    /\ Returns(set(Registry, symbol, level))
    /\ UNCHANGED <<symbols, impl, defaultLevel, stdout, stderr>>

\* controller.lock(symbol)
Controller_lock(symbol) ==
    /\ impl = "Controller"
    /\ Returns(lock(Registry, defaultLevel, symbol))
    /\ UNCHANGED <<symbols, impl, defaultLevel, stdout, stderr>>

\* scope.level = level, on a Scope the caller holds
\* (variant: the assignment reaching #level directly)
Scope_setLevelField(ref, level) ==
    /\ impl = "Controller"
    /\ ref \in Refs
    /\ heap' = [heap EXCEPT ![ref].level = level]
    /\ UNCHANGED <<symbols, impl, defaultLevel, scopes, stdout, stderr>>
Scope_setLevel(ref, level) ==
    /\ impl = "Controller"
    /\ ref \in Refs
    /\ heap' = [heap EXCEPT ![ref] = LevelSetter(@, level)]
    /\ UNCHANGED <<symbols, impl, defaultLevel, scopes, stdout, stderr>>

\* scope.locked = value, on a Scope the caller holds
Scope_setLocked(ref, value) ==
    /\ impl = "Controller"
    /\ ref \in Refs
    /\ heap' = [heap EXCEPT ![ref] = LockedSetter(@, value)]
    /\ UNCHANGED <<symbols, impl, defaultLevel, scopes, stdout, stderr>>

\* scope.debug(message), on a Scope the caller holds
Scope_debug(ref, message) ==
    /\ impl = "Controller"
    /\ ref \in Refs
    /\ Room(logFn(heap[ref], message, debug))
    /\ writeSync(logFn(heap[ref], message, debug))
    /\ UNCHANGED <<symbols, impl, defaultLevel, scopes, heap>>

\* scope.info(message)
Scope_info(ref, message) ==
    /\ impl = "Controller"
    /\ ref \in Refs
    /\ Room(logFn(heap[ref], message, info))
    /\ writeSync(logFn(heap[ref], message, info))
    /\ UNCHANGED <<symbols, impl, defaultLevel, scopes, heap>>

\* scope.warn(message)
Scope_warn(ref, message) ==
    /\ impl = "Controller"
    /\ ref \in Refs
    /\ Room(logFn(heap[ref], message, warn))
    /\ writeSync(logFn(heap[ref], message, warn))
    /\ UNCHANGED <<symbols, impl, defaultLevel, scopes, heap>>

\* scope.err(message)
Scope_err(ref, message) ==
    /\ impl = "Controller"
    /\ ref \in Refs
    /\ Room(logFn(heap[ref], message, err))
    /\ writeSync(logFn(heap[ref], message, err))
    /\ UNCHANGED <<symbols, impl, defaultLevel, scopes, heap>>

---------------------------------------------------------------------------
(* Calls on a Master (main.ts) *)

\* master.scope(sym): level defaults to this.defaultLevel
Master_scopeDefault(sym) ==
    /\ impl = "Master"
    /\ Returns(Master_scope(Registry, sym, defaultLevel))
    /\ UNCHANGED <<symbols, impl, defaultLevel, stdout, stderr>>

\* master.scope(sym, level)
Master_scopeLevel(sym, level) ==
    /\ impl = "Master"
    /\ Returns(Master_scope(Registry, sym, level))
    /\ UNCHANGED <<symbols, impl, defaultLevel, stdout, stderr>>

\* master.set(sym): level defaults to this.defaultLevel
Master_setDefault(sym) ==
    /\ impl = "Master"
    /\ Returns(Master_set(Registry, sym, defaultLevel))
    /\ UNCHANGED <<symbols, impl, defaultLevel, stdout, stderr>>

\* master.set(sym, level)
Master_setLevel(sym, level) ==
    /\ impl = "Master"
    /\ Returns(Master_set(Registry, sym, level))
    /\ UNCHANGED <<symbols, impl, defaultLevel, stdout, stderr>>

\* scope.level = level: a plain field write
MScope_setLevel(ref, level) ==
    /\ impl = "Master"
    /\ ref \in Refs
    /\ heap' = [heap EXCEPT ![ref].level = level]
    /\ UNCHANGED <<symbols, impl, defaultLevel, scopes, stdout, stderr>>

\* scope.debug(message), on a Scope the caller holds
MScope_debug(ref, message) ==
    /\ impl = "Master"
    /\ ref \in Refs
    /\ Room(log(heap[ref], message, debug))
    /\ writeSync(log(heap[ref], message, debug))
    /\ UNCHANGED <<symbols, impl, defaultLevel, scopes, heap>>

\* scope.info(message)
MScope_info(ref, message) ==
    /\ impl = "Master"
    /\ ref \in Refs
    /\ Room(log(heap[ref], message, info))
    /\ writeSync(log(heap[ref], message, info))
    /\ UNCHANGED <<symbols, impl, defaultLevel, scopes, heap>>

\* scope.warn(message)
MScope_warn(ref, message) ==
    /\ impl = "Master"
    /\ ref \in Refs
    /\ Room(log(heap[ref], message, warn))
    /\ writeSync(log(heap[ref], message, warn))
    /\ UNCHANGED <<symbols, impl, defaultLevel, scopes, heap>>

\* scope.err(message)
\* (variant: the call stores its own level in the scope before formatting)
MScope_errRelevel(ref, message) ==
    /\ impl = "Master"
    /\ ref \in Refs
    /\ Room(log([heap[ref] EXCEPT !.level = err], message, err))
    /\ writeSync(log([heap[ref] EXCEPT !.level = err], message, err))
    /\ heap' = [heap EXCEPT ![ref].level = err]
    /\ UNCHANGED <<symbols, impl, defaultLevel, scopes>>
MScope_err(ref, message) ==
    /\ impl = "Master"
    /\ ref \in Refs
    /\ Room(log(heap[ref], message, err))
    /\ writeSync(log(heap[ref], message, err))
    /\ UNCHANGED <<symbols, impl, defaultLevel, scopes, heap>>

---------------------------------------------------------------------------
Next ==
    \/ NewController
    \/ \E level \in Levels : NewControllerLevel(level)
    \/ NewMaster
    \/ \E level \in Levels : NewMasterLevel(level)
    \/ \E level \in Levels : AssignDefaultLevel(level)
    \/ \E symbol \in symbols : Controller_scope(symbol)
    \/ \E symbol \in symbols, level \in Levels : Controller_scopeLevel(symbol, level)
    \/ \E symbol \in symbols, level \in Levels : Controller_set(symbol, level)
    \/ \E symbol \in symbols : Controller_lock(symbol)
    \/ \E ref \in Refs, level \in Levels : Scope_setLevel(ref, level)
    \/ \E ref \in Refs, value \in BOOLEAN : Scope_setLocked(ref, value)
    \/ \E ref \in Refs, message \in Messages : Scope_debug(ref, message)
    \/ \E ref \in Refs, message \in Messages : Scope_info(ref, message)
    \/ \E ref \in Refs, message \in Messages : Scope_warn(ref, message)
    \/ \E ref \in Refs, message \in Messages : Scope_err(ref, message)
    \/ \E sym \in symbols : Master_scopeDefault(sym)
    \/ \E sym \in symbols, level \in Levels : Master_scopeLevel(sym, level)
    \/ \E sym \in symbols : Master_setDefault(sym)
    \/ \E sym \in symbols, level \in Levels : Master_setLevel(sym, level)
    \/ \E ref \in Refs, level \in Levels : MScope_setLevel(ref, level)
    \/ \E ref \in Refs, message \in Messages : MScope_debug(ref, message)
    \/ \E ref \in Refs, message \in Messages : MScope_info(ref, message)
    \/ \E ref \in Refs, message \in Messages : MScope_warn(ref, message)
    \/ \E ref \in Refs, message \in Messages : MScope_err(ref, message)

Spec == Init /\ [][Next]_vars

\* Runs with a single symbol and longer streams.
SpecLog == InitLog /\ [][Next]_vars

---------------------------------------------------------------------------
(* Properties *)

\* The Scope registered under symbol k.
ScopeOf(k) == heap[scopes[k]]

\* The writeSync calls an emission of the given level makes on the Scope at ref.
Emission(ref, message, level) ==
    IF impl = "Controller"
    THEN logFn(heap[ref], message, level)
    ELSE log(heap[ref], message, level)

(* C1: lock monotonicity.  A lock(k) step leaves the scope for k locked, at   *)
(* the level it had when lock was called; and from then on no step of any     *)
(* operation (set, lock, scope, direct assignment, ...) rebinds k, changes    *)
(* that scope's level or clears its locked flag.                              *)
C1_LockMonotonicity ==
    [][/\ \A k \in symbols :
            Controller_lock(k) =>
                /\ k \in DOMAIN scopes'
                /\ heap'[scopes'[k]].locked
                /\ k \in DOMAIN scopes =>
                       heap'[scopes'[k]].level = ScopeOf(k).level
       /\ \A k \in DOMAIN scopes :
            (impl = "Controller" /\ ScopeOf(k).locked) =>
                /\ k \in DOMAIN scopes'
                /\ scopes'[k] = scopes[k]
                /\ heap'[scopes'[k]].level = ScopeOf(k).level
                /\ heap'[scopes'[k]].locked]_vars

\* A scope locked at debug under a controller whose defaultLevel is now none,
\* beside a second, unlocked scope.
C1_Witness ==
    /\ impl = "Controller"
    /\ defaultLevel = none
    /\ \E k \in DOMAIN scopes, j \in DOMAIN scopes :
          /\ ScopeOf(k).locked
          /\ ScopeOf(k).level = debug
          /\ ~ScopeOf(j).locked

\* The step is a call of the emission method for `level` on the Scope at ref.
EmissionStep(ref, message, level) ==
    CASE level = debug -> Scope_debug(ref, message) \/ MScope_debug(ref, message)
      [] level = info -> Scope_info(ref, message) \/ MScope_info(ref, message)
      [] level = warn -> Scope_warn(ref, message) \/ MScope_warn(ref, message)
      [] level = err -> Scope_err(ref, message) \/ MScope_err(ref, message)

\* The chunks a step appends to the two streams.
NewOnStdout == SubSeq(stdout', Len(stdout) + 1, Len(stdout'))
NewOnStderr == SubSeq(stderr', Len(stderr) + 1, Len(stderr'))

\* In the current state, the emission method for each level on each scope makes
\* one write if level >= threshold and none otherwise.
WritesIffNotBelowThreshold ==
    \A ref \in Refs, level \in MessageLevels, message \in Messages :
        /\ Len(Emission(ref, message, level)) \in {0, 1}
        /\ Len(Emission(ref, message, level)) = 1 <=> level >= heap[ref].level

(* C2: suppression rule.  In every reachable state, for every scope (its      *)
(* threshold T ranges over debug..none), every message level L and every      *)
(* message, the emission method for L makes exactly one write if L >= T and   *)
(* none if T > L; and every step of an emission method appends exactly that   *)
(* many chunks to the streams and leaves what was written before in place.    *)
C2_SuppressionRule ==
    /\ []WritesIffNotBelowThreshold
    /\ [][\A ref \in Refs, level \in MessageLevels, message \in Messages :
             EmissionStep(ref, message, level) =>
                 /\ stdout' = stdout \o NewOnStdout
                 /\ stderr' = stderr \o NewOnStderr
                 /\ Len(NewOnStdout) + Len(NewOnStderr)
                        = (IF level >= heap[ref].level THEN 1 ELSE 0)]_vars

\* Scopes at thresholds warn and none exist, and a line has been written.
C2_Witness ==
    /\ \E ref \in Refs : heap[ref].level = warn
    /\ \E ref \in Refs : heap[ref].level = none
    /\ Writes = 1

\* The symbol a Scope object was constructed for.
SymbolOf(object) == IF impl = "Controller" THEN object.symbol ELSE object.sym

\* registry.scope(k, level) and registry.set(k, level) in the current state.
ScopeCall(k, level) ==
    IF impl = "Controller"
    THEN scope(Registry, k, level)
    ELSE Master_scope(Registry, k, level)

SetCall(k, level) ==
    IF impl = "Controller"
    THEN set(Registry, k, level)
    ELSE Master_set(Registry, k, level)

\* Every registered symbol is bound to a Scope constructed for it, and no
\* other Scope was ever constructed.
OneScopePerSymbol ==
    /\ \A k \in DOMAIN scopes : scopes[k] \in Refs /\ SymbolOf(ScopeOf(k)) = k
    /\ Len(heap) = Cardinality(DOMAIN scopes)

\* On a registered symbol, scope and set return the registered Scope, and
\* scope, set and lock construct nothing and rebind nothing.
CallsResolveToRegistered ==
    \A k \in DOMAIN scopes, level \in Levels :
        /\ ScopeCall(k, level).ret = scopes[k]
        /\ ScopeCall(k, level).reg.scopes = scopes
        /\ Len(ScopeCall(k, level).reg.heap) = Len(heap)
        /\ SetCall(k, level).ret = scopes[k]
        /\ SetCall(k, level).reg.scopes = scopes
        /\ Len(SetCall(k, level).reg.heap) = Len(heap)
        /\ impl = "Controller" =>
              /\ lock(Registry, level, k).reg.scopes = scopes
              /\ Len(lock(Registry, level, k).reg.heap) = Len(heap)

(* C3: identity stability.  Every registered symbol is bound to the one Scope *)
(* constructed for it, scope(k) and set(k, L) return that Scope and lock(k)   *)
(* touches it without constructing another, and no step of any operation      *)
(* rebinds a registered symbol or replaces the object behind a reference.     *)
C3_IdentityStability ==
    /\ [](OneScopePerSymbol /\ CallsResolveToRegistered)
    /\ [][\A k \in DOMAIN scopes :
             /\ k \in DOMAIN scopes'
             /\ scopes'[k] = scopes[k]
             /\ Len(heap') >= Len(heap)
             /\ SymbolOf(heap'[scopes[k]]) = k]_vars

\* Two scopes are registered, in either kind of registry, and their levels
\* have been configured apart.
C3_Witness ==
    /\ Cardinality(DOMAIN scopes) = 2
    /\ Len(heap) = 2
    /\ heap[1].level # heap[2].level
    /\ heap[1].level # defaultLevel
    /\ heap[2].level # defaultLevel

(* C4: routing.  Every non-suppressed info emission appends one chunk to      *)
(* stdout and nothing to stderr; every non-suppressed debug, warn or err      *)
(* emission appends one chunk to stderr and nothing to stdout.                *)
C4_Routing ==
    [][\A ref \in Refs, message \in Messages, level \in MessageLevels :
          (EmissionStep(ref, message, level)
             /\ Emission(ref, message, level) # <<>>) =>
              IF level = info
              THEN Len(NewOnStdout) = 1 /\ NewOnStderr = <<>>
              ELSE Len(NewOnStderr) = 1 /\ NewOnStdout = <<>>]_vars

\* The words a line may carry for a message level ("err" or "error" for err).
LevelWords(level) ==
    CASE level = debug -> {"debug"}
      [] level = info -> {"info"}
      [] level = warn -> {"warn"}
      [] level = err -> {"err", "error"}

(* C5: line format.  The one chunk a non-suppressed emission writes is        *)
(* '<word>(<scope name>): <message>\n' where <word> names the level of the    *)
(* method called, whatever the scope's threshold is.                          *)
C5_LineFormat ==
    [][\A ref \in Refs, message \in Messages, level \in MessageLevels :
          (EmissionStep(ref, message, level)
             /\ Emission(ref, message, level) # <<>>) =>
              \E word \in LevelWords(level) :
                  NewOnStdout \o NewOnStderr =
                      <<word \o "(" \o heap[ref].name \o "): " \o message \o "\n">>]_vars

(* C6: default threshold.  A step that creates the scope for an unknown key k *)
(* leaves it at the controller's defaultLevel when it is scope(k) with no     *)
(* level or lock(k), and at L when it is scope(k, L) or set(k, L).            *)
C6_DefaultThreshold ==
    [][\A k \in symbols \ DOMAIN scopes :
          /\ (Controller_scope(k) \/ Controller_lock(k)) =>
                 /\ k \in DOMAIN scopes'
                 /\ heap'[scopes'[k]].level = defaultLevel
          /\ \A level \in Levels :
                 (Controller_scopeLevel(k, level) \/ Controller_set(k, level)) =>
                     /\ k \in DOMAIN scopes'
                     /\ heap'[scopes'[k]].level = level]_vars

\* Under defaultLevel warn, one scope was created and locked at warn and another
\* was created at err.
C6_Witness ==
    /\ impl = "Controller"
    /\ defaultLevel = warn
    /\ Len(heap) = 2
    /\ heap[1].level = warn /\ heap[1].locked
    /\ heap[2].level = err

(* C7: a registry constructed with no arguments has default level debug.      *)
C7_NoArgumentDefaultIsDebug ==
    [][(NewController \/ NewMaster) => defaultLevel' = debug]_vars

(* C8: lock(k) never changes a threshold.  In every reachable state of a      *)
(* controller: on a registered k, lock(k) leaves the scope's level as it is   *)
(* (whatever defaultLevel is) and the scope locked, and changes no other      *)
(* scope; on an unknown k it creates the scope at defaultLevel, locked; and a *)
(* second lock(k) changes nothing.                                            *)
C8_LockKeepsThreshold ==
    impl = "Controller" =>
        \A k \in symbols, dflt \in Levels :
            LET after == lock(Registry, dflt, k).reg
                again == lock(after, dflt, k).reg
            IN  /\ k \in DOMAIN after.scopes
                /\ after.heap[after.scopes[k]].locked
                /\ again = after
                /\ k \in DOMAIN scopes =>
                      /\ after.scopes = scopes
                      /\ after.heap = [heap EXCEPT ![scopes[k]].locked = TRUE]
                /\ k \notin DOMAIN scopes =>
                      /\ lock(Registry, defaultLevel, k).reg.heap
                            = Append(heap, [Scope(k, defaultLevel,
                                               toString(Cardinality(DOMAIN scopes)))
                                            EXCEPT !.locked = TRUE])

\* An unlocked scope at debug and an unknown key, under defaultLevel err.
C8_Witness ==
    /\ impl = "Controller"
    /\ defaultLevel = err
    /\ \E k \in DOMAIN scopes : ScopeOf(k).level = debug /\ ~ScopeOf(k).locked
    /\ symbols \ DOMAIN scopes # {}

(* C9: set(k, L) on a locked scope is ignored: it returns the scope for k and *)
(* leaves the registry as it was; on an unlocked registered scope it returns  *)
(* the scope for k and leaves it at level L, everything else as it was.       *)
C9_SetOnLockedIgnored ==
    impl = "Controller" =>
        \A k \in DOMAIN scopes, level \in Levels :
            LET call == set(Registry, k, level)
            IN  /\ call.ret = scopes[k]
                /\ call.reg.scopes = scopes
                /\ ScopeOf(k).locked => call.reg.heap = heap
                /\ ~ScopeOf(k).locked =>
                      call.reg.heap = [heap EXCEPT ![scopes[k]].level = level]

\* A locked scope at warn beside an unlocked scope at info.
C9_Witness ==
    /\ impl = "Controller"
    /\ \E k \in DOMAIN scopes : ScopeOf(k).locked /\ ScopeOf(k).level = warn
    /\ \E k \in DOMAIN scopes : ~ScopeOf(k).locked /\ ScopeOf(k).level = info

\* scope.locked = value on each Scope of the current state: a locked scope
\* stays locked, an unlocked one takes the value.
LockedAssignmentLatches ==
    impl = "Controller" =>
        \A ref \in Refs, value \in BOOLEAN :
            LockedSetter(heap[ref], value) =
                [heap[ref] EXCEPT !.locked = heap[ref].locked \/ value]

(* C10: the locked latch.  Assigning true or false to a locked scope's locked *)
(* leaves it locked, assigning false to an unlocked scope leaves it unlocked, *)
(* assigning true locks it; and no step of any operation takes locked from    *)
(* true to false.                                                             *)
C10_LockedLatch ==
    /\ []LockedAssignmentLatches
    /\ [][impl = "Controller" =>
             \A ref \in Refs : heap[ref].locked => heap'[ref].locked]_vars

\* One scope locked by now and one still unlocked, both at the same level.
C10_Witness ==
    /\ impl = "Controller"
    /\ Len(heap) = 2
    /\ heap[1].locked /\ ~heap[2].locked
    /\ heap[1].level = heap[2].level


\* The decimal strings of 0, 1, 2, ...: the name expected of the n-th scope
\* registered when its symbol has no description.
IndexNames == <<"0", "1", "2", "3">>

(* C11 (as claimed, for both classes): every scope's name is its symbol's     *)
(* description, or, without one, the decimal string of the number of scopes   *)
(* registered before it.                                                      *)
C11_NamingFallbackIndex ==
    \A ref \in Refs :
        heap[ref].name =
            IF description(SymbolOf(heap[ref])).defined
            THEN description(SymbolOf(heap[ref])).text
            ELSE IndexNames[ref]

(* C11 (amended): every scope's name is its symbol's description; without one *)
(* it is, in a Controller, the decimal string of the number of scopes         *)
(* registered before it ("0" for the first) and, in a Master, "unknown".      *)
C11_NamingFallback ==
    \A ref \in Refs :
        heap[ref].name =
            IF description(SymbolOf(heap[ref])).defined
            THEN description(SymbolOf(heap[ref])).text
            ELSE IF impl = "Controller" THEN IndexNames[ref] ELSE "unknown"

\* A controller's second scope, created from a symbol without a description
\* after one created from a symbol with one.
C11_Witness ==
    /\ impl = "Controller"
    /\ Len(heap) = 2
    /\ heap[1].name = "lib"
    /\ ~description(heap[2].symbol).defined
    /\ heap[2].name = "1"

(* C12: threshold none.  While a scope's level is none, the emission method   *)
(* for every level makes no write on it, and no step of an emission method on *)
(* it changes either stream.                                                  *)
C12_ThresholdNone ==
    /\ [](\A ref \in Refs, level \in MessageLevels, message \in Messages :
              heap[ref].level = none => Emission(ref, message, level) = <<>>)
    /\ [][\A ref \in Refs, level \in MessageLevels, message \in Messages :
             (heap[ref].level = none /\ EmissionStep(ref, message, level)) =>
                 stdout' = stdout /\ stderr' = stderr]_vars

\* A scope that wrote a line and was then set to none.
C12_Witness ==
    \E ref \in Refs :
        /\ heap[ref].level = none
        /\ Writes = 1
        /\ Len(heap) = 1


\* Registry `after` is the current one with k registered too: every entry kept
\* as it was, and no entry but k's added.
RegistersOnly(after, k) ==
    /\ DOMAIN after.scopes = DOMAIN scopes \cup {k}
    /\ \A j \in DOMAIN scopes : after.scopes[j] = scopes[j]

(* C13: the registry only grows.  In every reachable state of a controller,   *)
(* scope, set and lock on any key k leave the mapping with exactly the keys   *)
(* it had plus k (so the same number of entries when k was registered), each  *)
(* old entry as it was; and no step of any operation removes a key, adds more *)
(* than one, or, when it is an emission or an assignment, changes the mapping.*)
C13_RegistryOnlyGrows ==
    /\ [](impl = "Controller" =>
            \A k \in symbols, level \in Levels :
                /\ RegistersOnly(scope(Registry, k, level).reg, k)
                /\ RegistersOnly(set(Registry, k, level).reg, k)
                /\ RegistersOnly(lock(Registry, level, k).reg, k))
    /\ [][impl = "Controller" =>
            /\ DOMAIN scopes \subseteq DOMAIN scopes'
            /\ Cardinality(DOMAIN scopes') <= Cardinality(DOMAIN scopes) + 1
            /\ \A ref \in Refs, level \in Levels :
                   (Scope_setLevel(ref, level) \/ AssignDefaultLevel(level)
                      \/ Scope_setLocked(ref, TRUE) \/ Scope_setLocked(ref, FALSE)
                      \/ \E message \in Messages :
                             level # none /\ EmissionStep(ref, message, level))
                   => scopes' = scopes]_vars

\* A controller holding both symbols of the run, after a lock and a write.
C13_Witness ==
    /\ impl = "Controller"
    /\ DOMAIN scopes = symbols
    /\ \E ref \in Refs : heap[ref].locked
    /\ Writes = 1


(* C14: scope(k, L) on a registered key has no side effect.  In every         *)
(* reachable state of either class, for every registered k and every level L  *)
(* (equal to the scope's level or not), scope(k, L) returns the registered    *)
(* scope and yields the registry as it was: the mapping, and every Scope's    *)
(* level, locked flag and name.                                               *)
C14_ScopeOnRegisteredKey ==
    \A k \in DOMAIN scopes, level \in Levels :
        ScopeCall(k, level) = [reg |-> Registry, ret |-> scopes[k]]

\* A master's scope at err while the master's defaultLevel is debug.
C14_Witness ==
    /\ impl = "Master"
    /\ defaultLevel = debug
    /\ \E k \in DOMAIN scopes : ScopeOf(k).level = err

\* In registry `after`, every registered scope other than k's is as it is now.
OthersKept(after, k) ==
    \A j \in DOMAIN scopes \ {k} :
        /\ after.scopes[j] = scopes[j]
        /\ after.heap[scopes[j]] = heap[scopes[j]]

(* C15: scopes are independent.  In every reachable state of a controller,    *)
(* set(k, L) and lock(k) leave the Scope of every other registered key j as   *)
(* it is (level, locked flag, name), also when j carries the same description *)
(* text as k; and every step of set(k, L) or lock(k) does so.                 *)
C15_ScopesIndependent ==
    /\ [](impl = "Controller" =>
            \A k \in symbols, level \in Levels :
                /\ OthersKept(set(Registry, k, level).reg, k)
                /\ OthersKept(lock(Registry, level, k).reg, k))
    /\ [][\A k \in symbols, level \in Levels :
             (Controller_set(k, level) \/ Controller_lock(k)) =>
                 \A j \in DOMAIN scopes \ {k} :
                     /\ scopes'[j] = scopes[j]
                     /\ heap'[scopes[j]] = heap[scopes[j]]]_vars

\* Two symbols with the same description text, their scopes both named "lib",
\* one locked at warn and the other unlocked at debug.
C15_Witness ==
    /\ impl = "Controller"
    /\ symbols = {"forLib", "uniqLib"}
    /\ DOMAIN scopes = symbols
    /\ ScopeOf("forLib").name = ScopeOf("uniqLib").name
    /\ ScopeOf("forLib").locked /\ ScopeOf("forLib").level = warn
    /\ ~ScopeOf("uniqLib").locked /\ ScopeOf("uniqLib").level = debug


\* scope.level = value on each Scope of the current state: ignored on a locked
\* scope, stored as it is on an unlocked one.
LevelAssignmentGuarded ==
    impl = "Controller" =>
        \A ref \in Refs, value \in Levels :
            LevelSetter(heap[ref], value) =
                IF heap[ref].locked
                THEN heap[ref]
                ELSE [heap[ref] EXCEPT !.level = value]

(* C16: direct assignment of level.  scope.level = L is ignored on a locked   *)
(* scope and stores L on an unlocked one; a step scope.level = L on an        *)
(* unlocked scope leaves it at L; and after any step of any operation a scope *)
(* that was locked with threshold T still writes, for each message level M,   *)
(* iff M >= T.                                                                *)
C16_LevelAssignment ==
    /\ []LevelAssignmentGuarded
    /\ [][\A ref \in Refs :
             /\ \A value \in Levels :
                    (Scope_setLevel(ref, value) /\ ~heap[ref].locked) =>
                        heap'[ref] = [heap[ref] EXCEPT !.level = value]
             /\ (impl = "Controller" /\ heap[ref].locked) =>
                    \A level \in MessageLevels, message \in Messages :
                        Len(logFn(heap'[ref], message, level))
                            = (IF level >= heap[ref].level THEN 1 ELSE 0)]_vars

\* A scope locked at warn that has written a line to stderr.
C16_Witness ==
    /\ impl = "Controller"
    /\ Len(heap) = 1
    /\ heap[1].locked
    /\ heap[1].level = warn
    /\ Len(stderr) = 1


\* The number of line breaks in a text.
RECURSIVE LineBreaks(_)
LineBreaks(text) ==
    IF Len(text) = 0 THEN 0
    ELSE (IF SubSeq(text, 1, 1) = "\n" THEN 1 ELSE 0)
         + LineBreaks(SubSeq(text, 2, Len(text)))

\* The text ends with a line break.
EndsLine(text) == Len(text) > 0 /\ SubSeq(text, Len(text), Len(text)) = "\n"

\* In the current state, the emission method for each level on each scope makes
\* no write when suppressed and one write otherwise.
OneWriteUnlessSuppressed ==
    \A ref \in Refs, level \in MessageLevels, message \in Messages :
        Len(Emission(ref, message, level))
            = (IF heap[ref].level > level THEN 0 ELSE 1)

\* A step that is an emission call appends what the call writes to the end of
\* each stream, so each stream holds its chunks in call order.
WritesInCallOrder ==
    \A ref \in Refs, level \in MessageLevels, message \in Messages :
        EmissionStep(ref, message, level) =>
            /\ stdout' = stdout \o Chunks(Emission(ref, message, level), "stdout")
            /\ stderr' = stderr \o Chunks(Emission(ref, message, level), "stderr")

C18_EmissionReadOnly ==
    [][\A ref \in Refs, level \in MessageLevels, message \in Messages :
          EmissionStep(ref, message, level) =>
              /\ heap' = heap
              /\ scopes' = scopes
              /\ defaultLevel' = defaultLevel
              /\ impl' = impl]_vars

\* A Master with both symbols registered, after an emission on a scope whose
\* threshold is err.
C18_Witness ==
    /\ impl = "Master"
    /\ DOMAIN scopes = symbols
    /\ \E ref \in Refs : heap[ref].level = err
    /\ stdout = <<"error(lib): x\n">>


(* C19: within one Controller, two scopes created from distinct keys that     *)
(* both lack a description never carry the same name, whatever scope, set and *)
(* lock calls came before: each carries the registry size at its creation,    *)
(* which is the number of scopes constructed before it.                       *)
C19_FallbackNamesDistinct ==
    impl = "Controller" =>
        /\ \A k \in DOMAIN scopes :
              ~description(k).defined => ScopeOf(k).name = toString(scopes[k] - 1)
        /\ \A k \in DOMAIN scopes, j \in DOMAIN scopes :
              (k # j /\ ~description(k).defined /\ ~description(j).defined) =>
                  ScopeOf(k).name # ScopeOf(j).name

\* Both keys without a description are registered, one of them locked: the
\* scopes are named "0" and "1".
C19_Witness ==
    /\ impl = "Controller"
    /\ DOMAIN scopes = {"anonA", "anonB"}
    /\ {ScopeOf(k).name : k \in DOMAIN scopes} = {"0", "1"}
    /\ \E k \in DOMAIN scopes : ScopeOf(k).locked


\* A step that changes defaultLevel changes no scope and no registry entry.
ReassignmentKeepsScopes ==
    defaultLevel' # defaultLevel => (heap' = heap /\ scopes' = scopes)

\* A step that creates the scope for k by a call without an explicit level
\* (scope, lock, and on a Master scope and set) gives it the defaultLevel of
\* the moment of the call.
CreatedAtCurrentDefault ==
    \A k \in symbols \ DOMAIN scopes :
        (\/ Controller_scope(k) \/ Controller_lock(k)
         \/ Master_scopeDefault(k) \/ Master_setDefault(k)) =>
            /\ k \in DOMAIN scopes'
            /\ heap'[scopes'[k]].level = defaultLevel

\* On a registered key, scope and lock without an explicit level do the same
\* whatever defaultLevel is.
RegisteredIgnoreDefault ==
    \A k \in DOMAIN scopes, level \in Levels :
        /\ impl = "Controller" =>
              /\ scope(Registry, k, level) = scope(Registry, k, defaultLevel)
              /\ lock(Registry, level, k) = lock(Registry, defaultLevel, k)
        /\ impl = "Master" =>
              Master_scope(Registry, k, level)
                  = Master_scope(Registry, k, defaultLevel)

(* C20 as stated: reassigning defaultLevel changes the level of no existing   *)
(* scope, and affects only scopes created afterwards without an explicit      *)
(* level: every call without an explicit level on a registered key does the   *)
(* same whatever defaultLevel is.                                             *)
C20_DefaultOnlyAtCreation ==
    /\ [](/\ RegisteredIgnoreDefault
          /\ \A k \in DOMAIN scopes, level \in Levels :
                impl = "Master" =>
                    Master_set(Registry, k, level)
                        = Master_set(Registry, k, defaultLevel))
    /\ [][ReassignmentKeepsScopes /\ CreatedAtCurrentDefault]_vars

(* C20: reassigning defaultLevel changes the level of no existing scope,      *)
(* locked or unlocked; scopes created afterwards without an explicit level,   *)
(* lock on an unknown key included, get the new value; scope and lock on a    *)
(* registered key do not depend on it; and on a Master, set(sym) without a    *)
(* level stores the current defaultLevel in the scope for sym, registered or  *)
(* not.                                                                       *)
C20_DefaultLevelReassigned ==
    /\ [](/\ RegisteredIgnoreDefault
          /\ \A k \in DOMAIN scopes, level \in Levels :
                impl = "Master" =>
                    LET after == Master_set(Registry, k, level).reg
                    IN  /\ after.scopes = scopes
                        /\ after.heap = [heap EXCEPT ![scopes[k]].level = level])
    /\ [][/\ ReassignmentKeepsScopes
          /\ CreatedAtCurrentDefault
          /\ \A k \in DOMAIN scopes :
                Master_setDefault(k) =>
                    heap' = [heap EXCEPT ![scopes[k]].level = defaultLevel]]_vars

\* A Controller whose defaultLevel is now err: the first scope still has the
\* level info it was created with, the second was created and locked at err.
C20_Witness ==
    /\ impl = "Controller"
    /\ defaultLevel = err
    /\ Len(heap) = 2
    /\ heap[1].level = info /\ ~heap[1].locked
    /\ heap[2].level = err /\ heap[2].locked

====
